---- MODULE Spec2Model ----
(***************************************************************************)
(* The filesystem tools of the AskQ sidecar (src/filesystem.py):           *)
(* list_directory, read_file, search_files and get_file_info, each a       *)
(* read-only query that confines its path argument to the project root,    *)
(* inspects the filesystem and returns a result envelope.                  *)
(*                                                                         *)
(* Strings are tuples of one-character strings, bytes are integers 0..255, *)
(* a filesystem path is the tuple of its components below "/".  Every      *)
(* handler is one action: it computes the handler's outcome together with  *)
(* the sequence of filesystem calls the handler makes on the way.          *)
(***************************************************************************)
EXTENDS Integers, Sequences, FiniteSets, TLC

VARIABLES
  pc,       \* "idle": no call in progress; "returned": a handler has returned
  op,       \* the tool last invoked
  args,     \* its arguments
  env,      \* what the environment did during the call (enumeration order, faults)
  calls,    \* the filesystem calls the handler made, in order
  result    \* what the caller received

vars == <<pc, op, args, env, calls, result>>

-----------------------------------------------------------------------------
(* Characters and strings (Python str: compared by code point).            *)

Ascii ==
  { <<"+", 43>>, <<".", 46>>, <<"/", 47>>, <<"0", 48>>, <<"1", 49>>, <<"2", 50>>,
    <<"3", 51>>, <<"4", 52>>, <<"5", 53>>, <<"6", 54>>, <<"7", 55>>, <<"8", 56>>,
    <<"9", 57>>, <<"=", 61>>, <<"A", 65>>, <<"B", 66>>, <<"C", 67>>, <<"D", 68>>,
    <<"E", 69>>, <<"F", 70>>, <<"G", 71>>, <<"H", 72>>, <<"I", 73>>, <<"J", 74>>,
    <<"K", 75>>, <<"L", 76>>, <<"M", 77>>, <<"N", 78>>, <<"O", 79>>, <<"P", 80>>,
    <<"Q", 81>>, <<"R", 82>>, <<"S", 83>>, <<"T", 84>>, <<"U", 85>>, <<"V", 86>>,
    <<"W", 87>>, <<"X", 88>>, <<"Y", 89>>, <<"Z", 90>>, <<"_", 95>>, <<"a", 97>>,
    <<"b", 98>>, <<"c", 99>>, <<"d", 100>>, <<"e", 101>>, <<"f", 102>>, <<"g", 103>>,
    <<"h", 104>>, <<"i", 105>>, <<"j", 106>>, <<"k", 107>>, <<"l", 108>>, <<"m", 109>>,
    <<"n", 110>>, <<"o", 111>>, <<"p", 112>>, <<"q", 113>>, <<"r", 114>>, <<"s", 115>>,
    <<"t", 116>>, <<"u", 117>>, <<"v", 118>>, <<"w", 119>>, <<"x", 120>>, <<"y", 121>>,
    <<"z", 122>> }

Ord == [c \in {p[1] : p \in Ascii} |-> (CHOOSE p \in Ascii : p[1] = c)[2]]

Chr == [n \in {p[2] : p \in Ascii} |-> (CHOOSE p \in Ascii : p[2] = n)[1]]

\* str.lower() on one character
LowerChar(c) == IF Ord[c] >= 65 /\ Ord[c] <= 90 THEN Chr[Ord[c] + 32] ELSE c

\* str.lower()
Lower(s) == [i \in 1..Len(s) |-> LowerChar(s[i])]

\* a < b for Python strings: lexicographic by code point, a proper prefix is smaller
RECURSIVE StrLess(_, _)
StrLess(a, b) ==
  IF b = <<>> THEN FALSE
  ELSE IF a = <<>> THEN TRUE
  ELSE IF Ord[Head(a)] # Ord[Head(b)] THEN Ord[Head(a)] < Ord[Head(b)]
  ELSE StrLess(Tail(a), Tail(b))

StrLeq(a, b) == a = b \/ StrLess(a, b)

\* `needle in hay` for Python strings
Contains(hay, needle) ==
  \E i \in 0..(Len(hay) - Len(needle)) : SubSeq(hay, i + 1, i + Len(needle)) = needle

\* str.rfind("."): the last index (1-based) of a dot, 0 when there is none
RFindDot(s) ==
  IF \E i \in 1..Len(s) : s[i] = "." THEN CHOOSE i \in 1..Len(s) :
       s[i] = "." /\ \A j \in (i + 1)..Len(s) : s[j] # "."
  ELSE 0

\* pathlib's PurePath.suffix: the last dot and what follows it, unless the dot is
\* the first or the last character of the name
Suffix(name) ==
  LET i == RFindDot(name)
  IN IF i > 1 /\ i < Len(name) THEN SubSeq(name, i, Len(name)) ELSE <<>>

-----------------------------------------------------------------------------
(* The filesystem the tools are run against.                               *)

n_proj == <<"p", "r", "o", "j">>
n_etc == <<"e", "t", "c">>
n_pw == <<"p", "w">>
n_A_TXT == <<"A", ".", "T", "X", "T">>
n_b_txt == <<"b", ".", "t", "x", "t">>
n_sub == <<"s", "u", "b">>
n_v_d == <<"v", ".", "d">>
n_ab_bin == <<"a", "b", ".", "b", "i", "n">>
n_ab == <<"a", "b">>
n_big_bin == <<"b", "i", "g", ".", "b", "i", "n">>
n_in == <<"i", "n">>
n_ab_h == <<"a", "b", ".", "h">>
n_max_bin == <<"m", "a", "x", ".", "b", "i", "n">>
n_big_txt == <<"b", "i", "g", ".", "t", "x", "t">>
n_c_json == <<"c", ".", "j", "s", "o", "n">>
n_u_uproject == <<"u", ".", "u", "p", "r", "o", "j", "e", "c", "t">>
n_ghost_txt == <<"g", "h", "o", "s", "t", ".", "t", "x", "t">>

DotDot == <<".", ".">>

ProjectRoot == <<n_proj>>

MAX_FILE_SIZE == 10 * 1024 * 1024

\* st_size is what stat reports and data the bytes a read returns.  For the three
\* files at the size ceiling, data stands for the first bytes of the content only.
FsNodes ==
  { [path |-> <<>>, kind |-> "dir", st_size |-> 4096, mtime |-> [sec |-> 1, us |-> 0], data |-> <<>>],
    [path |-> <<n_etc>>, kind |-> "dir", st_size |-> 4096, mtime |-> [sec |-> 1, us |-> 0], data |-> <<>>],
    [path |-> <<n_etc, n_pw>>, kind |-> "file", st_size |-> 2, mtime |-> [sec |-> 2, us |-> 0], data |-> <<114, 10>>],
    [path |-> <<n_proj>>, kind |-> "dir", st_size |-> 4096, mtime |-> [sec |-> 3, us |-> 0], data |-> <<>>],
    [path |-> <<n_proj, n_A_TXT>>, kind |-> "file", st_size |-> 4, mtime |-> [sec |-> 10, us |-> 0],
     data |-> <<72, 10, 195, 169>>],
    [path |-> <<n_proj, n_b_txt>>, kind |-> "file", st_size |-> 3, mtime |-> [sec |-> 10, us |-> 500000],
     data |-> <<255, 98, 10>>],
    [path |-> <<n_proj, n_sub>>, kind |-> "dir", st_size |-> 4096, mtime |-> [sec |-> 4, us |-> 0], data |-> <<>>],
    [path |-> <<n_proj, n_v_d>>, kind |-> "dir", st_size |-> 4096, mtime |-> [sec |-> 4, us |-> 7], data |-> <<>>],
    [path |-> <<n_proj, n_sub, n_ab_bin>>, kind |-> "file", st_size |-> 3, mtime |-> [sec |-> 9, us |-> 999999],
     data |-> <<0, 255, 16>>],
    [path |-> <<n_proj, n_sub, n_ab>>, kind |-> "file", st_size |-> 1, mtime |-> [sec |-> 12, us |-> 0],
     data |-> <<97>>],
    [path |-> <<n_proj, n_sub, n_big_bin>>, kind |-> "file", st_size |-> MAX_FILE_SIZE + 1,
     mtime |-> [sec |-> 10, us |-> 0], data |-> <<0, 1>>],
    [path |-> <<n_proj, n_sub, n_in>>, kind |-> "dir", st_size |-> 4096, mtime |-> [sec |-> 5, us |-> 0], data |-> <<>>],
    [path |-> <<n_proj, n_sub, n_in, n_ab_h>>, kind |-> "file", st_size |-> 2, mtime |-> [sec |-> 11, us |-> 1],
     data |-> <<35, 10>>],
    [path |-> <<n_proj, n_sub, n_in, n_max_bin>>, kind |-> "file", st_size |-> MAX_FILE_SIZE,
     mtime |-> [sec |-> 5, us |-> 0], data |-> <<128, 7>>],
    [path |-> <<n_proj, n_sub, n_in, n_big_txt>>, kind |-> "file", st_size |-> MAX_FILE_SIZE + 1,
     mtime |-> [sec |-> 11, us |-> 0], data |-> <<97, 10>>],
    [path |-> <<n_proj, n_v_d, n_c_json>>, kind |-> "file", st_size |-> 2, mtime |-> [sec |-> 7, us |-> 0],
     data |-> <<123, 125>>],
    [path |-> <<n_proj, n_v_d, n_u_uproject>>, kind |-> "file", st_size |-> 4, mtime |-> [sec |-> 8, us |-> 250000],
     data |-> <<123, 192, 10, 125>>] }

FsPaths == {n.path : n \in FsNodes}

Node == [p \in FsPaths |-> CHOOSE n \in FsNodes : n.path = p]

\* the last component of a path (Path.name)
Name(p) == IF p = <<>> THEN <<>> ELSE p[Len(p)]

Parent(p) == SubSeq(p, 1, Len(p) - 1)

IsPrefix(a, b) == Len(a) <= Len(b) /\ SubSeq(b, 1, Len(a)) = a

Children(d) == {p \in FsPaths : p # <<>> /\ Parent(p) = d}

Descendants(d) == {p \in FsPaths : p # d /\ IsPrefix(d, p)}

Dirs == {p \in FsPaths : Node[p].kind = "dir"}

\* Path.exists(), Path.is_dir(), Path.is_file()
Exists(p) == p \in FsPaths

IsDir(p) == p \in FsPaths /\ Node[p].kind = "dir"

IsFile(p) == p \in FsPaths /\ Node[p].kind = "file"

-----------------------------------------------------------------------------
(* Optional values (None), exceptions, and the outcome of a handler body.  *)

None == <<>>

Some(v) == <<v>>

Raise(cls, msg, log) == [raised |-> TRUE, exc |-> [cls |-> cls, msg |-> msg], calls |-> log]

Return(v, log) == [raised |-> FALSE, value |-> v, calls |-> log]

\* one filesystem call, as recorded in the call log
C(kind, p) == [call |-> kind, at |-> p]

\* the calls that probe the filesystem
ProbeKinds == {"exists", "is_dir", "is_file", "stat", "iterdir", "glob", "rglob", "open"}

\* the environment makes at most one filesystem call fail with PermissionError
NoFault == [call |-> "none", at |-> <<>>]

Faulty(fault, kind, p) == fault.call = kind /\ fault.at = p

\* datetime.now().isoformat() of the moment the envelope is built
Timestamp == "now"

-----------------------------------------------------------------------------
(* Path confinement (config.get_safe_path).  A path argument is a flag     *)
(* (absolute or not) and its segments; "" is the relative path without     *)
(* segments.                                                               *)

RECURSIVE Normalize(_, _)
Normalize(base, segs) ==
  IF segs = <<>> THEN base
  ELSE IF Head(segs) = DotDot
    THEN Normalize(IF base = <<>> THEN base ELSE Parent(base), Tail(segs))
    ELSE Normalize(Append(base, Head(segs)), Tail(segs))

get_safe_path(path) ==
  LET n == Normalize(IF path.abs THEN <<>> ELSE ProjectRoot, path.segs)
  IN [ok |-> IsPrefix(ProjectRoot, n), path |-> n]

\* Path.relative_to(get_project_root()) of a path inside the root
RelativeTo(p) == SubSeq(p, Len(ProjectRoot) + 1, Len(p))

-----------------------------------------------------------------------------
(* Library conversions used by the handlers.                               *)

\* mimetypes.guess_type, for the extensions of the modelled files
guess_type(p) ==
  LET e == Lower(Suffix(Name(p)))
  IN CASE e = <<".", "t", "x", "t">> -> Some([major |-> "text", minor |-> "plain"])
       [] e = <<".", "h">> -> Some([major |-> "text", minor |-> "x-chdr"])
       [] e = <<".", "d">> -> Some([major |-> "text", minor |-> "x-dsrc"])
       [] e = <<".", "j", "s", "o", "n">> -> Some([major |-> "application", minor |-> "json"])
       [] e = <<".", "b", "i", "n">> -> Some([major |-> "application", minor |-> "octet-stream"])
       [] OTHER -> None

\* two decimal digits, six decimal digits
Digit(n) == Chr[48 + n]

Digits2(n) == <<Digit(n \div 10), Digit(n % 10)>>

Digits6(n) ==
  <<Digit(n \div 100000), Digit((n \div 10000) % 10), Digit((n \div 1000) % 10),
    Digit((n \div 100) % 10), Digit((n \div 10) % 10), Digit(n % 10)>>

\* datetime.fromtimestamp(st_mtime).isoformat(): the seconds field onwards (the
\* modelled files are modified within one minute); microseconds are printed only
\* when they are not zero
isoformat(t) == Digits2(t.sec) \o (IF t.us = 0 THEN <<>> ELSE <<".">> \o Digits6(t.us))

\* bytes.decode("utf-8", errors="ignore"), for one- and two-byte sequences (the
\* modelled files hold no lead byte of a longer sequence): code points
RECURSIVE Utf8Ignore(_)
Utf8Ignore(b) ==
  IF b = <<>> THEN <<>>
  ELSE IF b[1] < 128 THEN <<b[1]>> \o Utf8Ignore(Tail(b))
  ELSE IF b[1] >= 194 /\ b[1] <= 223 /\ Len(b) >= 2 /\ b[2] >= 128 /\ b[2] <= 191
    THEN <<(b[1] - 192) * 64 + (b[2] - 128)>> \o Utf8Ignore(SubSeq(b, 3, Len(b)))
  ELSE Utf8Ignore(Tail(b))

\* bytes.decode("latin-1"): every byte is its own code point
Latin1(b) == [i \in 1..Len(b) |-> b[i]]

\* len(f.readlines()): the lines ended by "\n", and one more for an unfinished last line
LineCount(text) ==
  Cardinality({i \in 1..Len(text) : text[i] = 10})
    + (IF text # <<>> /\ text[Len(text)] # 10 THEN 1 ELSE 0)

B64Alphabet ==
  << "A", "B", "C", "D", "E", "F", "G", "H", "I", "J", "K", "L", "M", "N", "O", "P",
     "Q", "R", "S", "T", "U", "V", "W", "X", "Y", "Z", "a", "b", "c", "d", "e", "f",
     "g", "h", "i", "j", "k", "l", "m", "n", "o", "p", "q", "r", "s", "t", "u", "v",
     "w", "x", "y", "z", "0", "1", "2", "3", "4", "5", "6", "7", "8", "9", "+", "/" >>

B64Index(c) == CHOOSE i \in 1..64 : B64Alphabet[i] = c

\* base64.b64encode(data).decode("utf-8")
RECURSIVE b64encode(_)
b64encode(b) ==
  IF b = <<>> THEN <<>>
  ELSE IF Len(b) = 1 THEN
    <<B64Alphabet[(b[1] \div 4) + 1], B64Alphabet[((b[1] % 4) * 16) + 1], "=", "=">>
  ELSE IF Len(b) = 2 THEN
    <<B64Alphabet[(b[1] \div 4) + 1],
      B64Alphabet[((b[1] % 4) * 16 + (b[2] \div 16)) + 1],
      B64Alphabet[((b[2] % 16) * 4) + 1], "=">>
  ELSE
    <<B64Alphabet[(b[1] \div 4) + 1],
      B64Alphabet[((b[1] % 4) * 16 + (b[2] \div 16)) + 1],
      B64Alphabet[((b[2] % 16) * 4 + (b[3] \div 64)) + 1],
      B64Alphabet[(b[3] % 64) + 1]>> \o b64encode(SubSeq(b, 4, Len(b)))

\* base64.b64decode
RECURSIVE b64decode(_)
b64decode(s) ==
  IF Len(s) < 4 THEN <<>>
  ELSE LET i1 == B64Index(s[1]) - 1
           i2 == B64Index(s[2]) - 1
           b1 == i1 * 4 + (i2 \div 16)
       IN IF s[3] = "=" THEN <<b1>>
          ELSE LET i3 == B64Index(s[3]) - 1
                   b2 == (i2 % 16) * 16 + (i3 \div 4)
               IN IF s[4] = "=" THEN <<b1, b2>>
                  ELSE <<b1, b2, (i3 % 4) * 64 + (B64Index(s[4]) - 1)>>
                         \o b64decode(SubSeq(s, 5, Len(s)))

text_extensions ==
  { <<".", "t", "x", "t">>, <<".", "m", "d">>,
    <<".", "m", "a", "r", "k", "d", "o", "w", "n">>, <<".", "p", "y">>,
    <<".", "c", "p", "p">>, <<".", "h">>, <<".", "h", "p", "p">>, <<".", "c">>,
    <<".", "c", "c">>, <<".", "j", "a", "v", "a">>, <<".", "c", "s">>,
    <<".", "g", "o">>, <<".", "r", "s">>, <<".", "j", "s">>, <<".", "t", "s">>,
    <<".", "j", "s", "x">>, <<".", "t", "s", "x">>, <<".", "h", "t", "m", "l">>,
    <<".", "h", "t", "m">>, <<".", "c", "s", "s">>, <<".", "s", "c", "s", "s">>,
    <<".", "l", "e", "s", "s">>, <<".", "x", "m", "l">>, <<".", "j", "s", "o", "n">>,
    <<".", "y", "a", "m", "l">>, <<".", "y", "m", "l">>, <<".", "t", "o", "m", "l">>,
    <<".", "i", "n", "i">>, <<".", "c", "f", "g">>, <<".", "c", "o", "n", "f">>,
    <<".", "p", "h", "p">>, <<".", "r", "b">>, <<".", "p", "l">>, <<".", "p", "m">>,
    <<".", "l", "u", "a">>, <<".", "s", "q", "l">>, <<".", "s", "h">>,
    <<".", "b", "a", "s", "h">>, <<".", "b", "a", "t">>, <<".", "c", "m", "d">>,
    <<".", "p", "s", "1">>, <<".", "a", "s", "m">>, <<".", "s">>, <<".", "v">>,
    <<".", "s", "v">>, <<".", "v", "h", "d">>, <<".", "v", "h", "d", "l">>,
    <<".", "t", "e", "x">>, <<".", "r", "s", "t">>, <<".", "l", "o", "g">>,
    <<".", "c", "s", "v">>, <<".", "t", "s", "v">>, <<".", "p", "r", "o", "t", "o">>,
    <<".", "t", "h", "r", "i", "f", "t">>, <<".", "g", "r", "a", "d", "l", "e">>,
    <<".", "m">>, <<".", "m", "m">>, <<".", "s", "w", "i", "f", "t">>,
    <<".", "k", "t">>, <<".", "k", "t", "s">>, <<".", "d", "a", "r", "t">>,
    <<".", "e", "l", "m">>, <<".", "e", "r", "l">>, <<".", "e", "x">>,
    <<".", "e", "x", "s">>, <<".", "f", "s">>, <<".", "f", "s", "x">>,
    <<".", "f", "s", "i">>, <<".", "h", "s">>, <<".", "l", "h", "s">>,
    <<".", "m", "l">>, <<".", "m", "l", "i">>, <<".", "n", "i", "m">>,
    <<".", "p", "a", "s">>, <<".", "p", "p">>, <<".", "r">>, <<".", "r", "m", "d">>,
    <<".", "s", "c", "a", "l", "a">>, <<".", "v", "b">>, <<".", "v", "b", "s">>,
    <<".", "z", "i", "g">>, <<".", "u", "p", "r", "o", "j", "e", "c", "t">>,
    <<".", "u", "p", "l", "u", "g", "i", "n">>,
    <<".", "B", "u", "i", "l", "d", ".", "c", "s">>,
    <<".", "T", "a", "r", "g", "e", "t", ".", "c", "s">> }

\* the MIME types read_file and get_file_info take for text besides text/*
TextMimeTypes == {"json", "xml", "javascript", "x-python", "x-c++src"}

MimeIsText(mime_type) ==
  /\ mime_type # None
  /\ \/ mime_type[1].major = "text"
     \/ mime_type[1].major = "application" /\ mime_type[1].minor \in TextMimeTypes

-----------------------------------------------------------------------------
(* Directory enumeration.  The order in which the filesystem yields the     *)
(* entries of a directory is the environment's choice: a permutation of     *)
(* the positions of the entries.                                            *)

RECURSIVE SortPaths(_)
SortPaths(S) ==
  IF S = {} THEN <<>>
  ELSE LET m == CHOOSE x \in S : \A y \in S : StrLeq(Name(x), Name(y))
       IN <<m>> \o SortPaths(S \ {m})

AscChildren == [d \in Dirs |-> SortPaths(Children(d))]

MaxChildren == CHOOSE n \in 0..Cardinality(FsPaths) :
  /\ \E d \in Dirs : Len(AscChildren[d]) = n
  /\ \A d \in Dirs : Len(AscChildren[d]) <= n

EnumOrders == Permutations(1..MaxChildren)

IdentityOrder == [i \in 1..MaxChildren |-> i]

\* the entries of directory d as the filesystem yields them under `order`
Enumerate(d, order) ==
  LET a == AscChildren[d]
      k == Len(a)
      rank(i) == Cardinality({j \in 1..k : order[j] < order[i]}) + 1
  IN [n \in 1..k |-> a[CHOOSE i \in 1..k : rank(i) = n]]

\* `if file_extensions:` is false for None and for the empty list
Truthy(file_extensions) == ~file_extensions.isNone /\ file_extensions.list # <<>>

\* the filter if a requested extension had to equal the suffix
ExtensionEquals(file_extensions, item) ==
  \E i \in 1..Len(file_extensions.list) :
    Lower(Suffix(Name(item))) = Lower(file_extensions.list[i])

\* any(ext.lower() in item.suffix.lower() for ext in file_extensions)
ExtensionMatches(file_extensions, item) ==
  \E i \in 1..Len(file_extensions.list) :
    Contains(Lower(Suffix(Name(item))), Lower(file_extensions.list[i]))

\* list.sort(key=lambda x: x["name"]): ascending and stable
RECURSIVE InsertByName(_, _)
InsertByName(x, sorted) ==
  IF sorted = <<>> THEN <<x>>
  ELSE IF StrLess(x.name, Head(sorted).name) THEN <<x>> \o sorted
  ELSE <<Head(sorted)>> \o InsertByName(x, Tail(sorted))

SortByNameOmitted(files) == files

RECURSIVE SortByName(_)
SortByName(files) ==
  IF files = <<>> THEN <<>>
  ELSE InsertByName(files[Len(files)], SortByName(SubSeq(files, 1, Len(files) - 1)))

\* list.sort() of strings
RECURSIVE InsertStr(_, _)
InsertStr(x, sorted) ==
  IF sorted = <<>> THEN <<x>>
  ELSE IF StrLess(x, Head(sorted)) THEN <<x>> \o sorted
  ELSE <<Head(sorted)>> \o InsertStr(x, Tail(sorted))

RECURSIVE SortStrings(_)
SortStrings(names) ==
  IF names = <<>> THEN <<>>
  ELSE InsertStr(names[Len(names)], SortStrings(SubSeq(names, 1, Len(names) - 1)))

-----------------------------------------------------------------------------
(* The operation boundary: `except Exception as e` of every handler.       *)

OSErrorClasses == {"FileNotFoundError", "NotADirectoryError", "PermissionError"}

\* the classes raised in the handlers; each derives from Exception
ExceptionClasses ==
  OSErrorClasses \cup {"ValueError", "TypeError", "UnicodeDecodeError", "AccessDenied"}

except_OSError(outcome) ==
  IF ~outcome.raised THEN outcome.value
  ELSE IF outcome.exc.cls \in OSErrorClasses
    THEN [success |-> FALSE, error |-> outcome.exc.msg, error_type |-> outcome.exc.cls,
          timestamp |-> Timestamp]
  ELSE [escaped |-> outcome.exc]

except_Exception(outcome) ==
  IF ~outcome.raised THEN outcome.value
  ELSE IF outcome.exc.cls \in ExceptionClasses
    THEN [success |-> FALSE, error |-> outcome.exc.msg, error_type |-> outcome.exc.cls,
          timestamp |-> Timestamp]
  ELSE [escaped |-> outcome.exc]

\* what a handler hands back, together with the calls it made
Handled(outcome) == [result |-> except_Exception(outcome), calls |-> outcome.calls]

-----------------------------------------------------------------------------
(* list_directory                                                          *)

\* the dictionary built for one file of a listing
ListFileInfo(item) ==
  [name |-> Name(item), path |-> item, relative_path |-> RelativeTo(item), type |-> "file",
   size |-> Node[item].st_size, modified_time |-> isoformat(Node[item].mtime),
   mime_type |-> guess_type(item), extension |-> Lower(Suffix(Name(item))),
   line_count |-> None]

\* the loop over safe_path.iterdir(); an OSError at an entry skips the entry
RECURSIVE ListLoop(_, _, _, _, _, _)
ListLoop(items, file_extensions, fault, files, subdirectories, log) ==
  IF items = <<>> THEN [files |-> files, subdirectories |-> subdirectories, calls |-> log]
  ELSE
    LET item == Head(items)
        rest == Tail(items)
        c1 == Append(log, C("is_dir", item))
        c2 == Append(c1, C("stat", item))
        c3 == c2 \o <<C("is_dir", item), C("is_dir", item), C("is_dir", item), C("is_dir", item)>>
    IN IF Faulty(fault, "is_dir", item)
         THEN ListLoop(rest, file_extensions, fault, files, subdirectories, c1)
       ELSE IF IsDir(item)
         THEN ListLoop(rest, file_extensions, fault, files,
                       Append(subdirectories, Name(item)), c1)
       ELSE IF Truthy(file_extensions) /\ ~ExtensionMatches(file_extensions, item)
         THEN ListLoop(rest, file_extensions, fault, files, subdirectories, c1)
       ELSE IF Faulty(fault, "stat", item)
         THEN ListLoop(rest, file_extensions, fault, files, subdirectories, c2)
       ELSE ListLoop(rest, file_extensions, fault, Append(files, ListFileInfo(item)),
                     subdirectories, c3)

\* lines 89-105: the two sorts and the result of a listing whose loop has ended
ListSorted(safe_path, files, subdirectories, log) ==
  Return([success |-> TRUE, action |-> "list", path |-> safe_path,
          relative_path |-> RelativeTo(safe_path), files |-> files,
          subdirectories |-> subdirectories, total_files |-> Len(files),
          total_directories |-> Len(subdirectories), timestamp |-> Timestamp],
         log)

ListResult(safe_path, loop) ==
  ListSorted(safe_path, SortByName(loop.files), SortStrings(loop.subdirectories), loop.calls)

list_directory_try(path, file_extensions, order, fault) ==
  LET sp == get_safe_path(path)
      safe_path == sp.path
      c0 == <<C("get_safe_path", safe_path)>>
      c1 == Append(c0, C("exists", safe_path))
      c2 == Append(c1, C("is_dir", safe_path))
      c3 == Append(c2, C("iterdir", safe_path))
  IN IF ~sp.ok THEN Raise("AccessDenied", "Access denied", c0)
     ELSE IF Faulty(fault, "exists", safe_path) THEN Raise("PermissionError", "Permission denied", c1)
     ELSE IF ~Exists(safe_path) THEN Raise("FileNotFoundError", "Path not found", c1)
     ELSE IF Faulty(fault, "is_dir", safe_path) THEN Raise("PermissionError", "Permission denied", c2)
     ELSE IF ~IsDir(safe_path) THEN Raise("NotADirectoryError", "Path is not a directory", c2)
     ELSE IF Faulty(fault, "iterdir", safe_path) THEN Raise("PermissionError", "Permission denied", c3)
     ELSE ListResult(safe_path,
                     ListLoop(Enumerate(safe_path, order), file_extensions, fault, <<>>, <<>>, c3))

list_directory(path, file_extensions, order, fault) ==
  Handled(list_directory_try(path, file_extensions, order, fault))

-----------------------------------------------------------------------------
(* read_file                                                               *)

\* the text/binary decision of read_file: the MIME type or the extension
ReadIsText(safe_path) ==
  MimeIsText(guess_type(safe_path)) \/ Lower(Suffix(Name(safe_path))) \in text_extensions

\* What the two text-mode reads do is the environment's choice: "ok" (the UTF-8
\* read returns), "utf8" (it raises UnicodeDecodeError and the Latin-1 read
\* returns), "both" (the Latin-1 read raises too).
Decodings == {"ok", "utf8", "both"}

\* lines 263-279: the text-mode read of a file classified text.  is_text is
\* cleared when both reads raise.
TextRead(text, opens) ==
  [is_text |-> TRUE, content |-> text, content_encoding |-> "text",
   line_count |-> LineCount(text), opens |-> opens]

IsAsciiByte(b) == b < 128

ReadBinaryAsText(data, opens) ==
  [is_text |-> FALSE, content |-> b64encode(SelectSeq(data, IsAsciiByte)),
   content_encoding |-> "base64", line_count |-> 0, opens |-> opens + 1]

\* lines 281-287: the binary read, after `opens` text-mode reads that raised
ReadBinary(data, opens) ==
  [is_text |-> FALSE, content |-> b64encode(data), content_encoding |-> "base64",
   line_count |-> 0, opens |-> opens + 1]

ReadContentNoLatin1(data, classified_text, decoding) ==
  IF ~classified_text THEN ReadBinary(data, 0)
  ELSE IF decoding = "ok" THEN TextRead(Utf8Ignore(data), 1)
  ELSE ReadBinary(data, 1)

\* lines 258-287: content, encoding, line count and final is_text of a read
ReadContent(data, classified_text, decoding) ==
  IF ~classified_text THEN ReadBinary(data, 0)
  ELSE IF decoding = "ok" THEN TextRead(Utf8Ignore(data), 1)
  ELSE IF decoding = "utf8" THEN TextRead(Latin1(data), 2)
  ELSE ReadBinary(data, 2)

TooLargeAtCeiling(file_size) == file_size >= MAX_FILE_SIZE

\* line 140: the size test
TooLarge(file_size) == file_size > MAX_FILE_SIZE

\* lines 289-303: the result of a read
ReadResult(safe_path, mime_type, r, log) ==
  Return([success |-> TRUE, action |-> "read", path |-> safe_path,
          relative_path |-> RelativeTo(safe_path), content |-> r.content,
          encoding |-> r.content_encoding, line_count |-> r.line_count,
          size |-> Node[safe_path].st_size,
          mime_type |-> IF mime_type = None
                          THEN [major |-> "application", minor |-> "octet-stream"]
                          ELSE mime_type[1],
          is_text |-> r.is_text, timestamp |-> Timestamp],
         log \o [i \in 1..r.opens |-> C("open", safe_path)])

read_file_try(path, decoding, fault) ==
  LET sp == get_safe_path(path)
      safe_path == sp.path
      c0 == <<C("get_safe_path", safe_path)>>
      c1 == Append(c0, C("exists", safe_path))
      c2 == Append(c1, C("is_file", safe_path))
      c3 == Append(c2, C("stat", safe_path))
      c4 == Append(c3, C("stat", safe_path))
  IN IF ~sp.ok THEN Raise("AccessDenied", "Access denied", c0)
     ELSE IF Faulty(fault, "exists", safe_path) THEN Raise("PermissionError", "Permission denied", c1)
     ELSE IF ~Exists(safe_path) THEN Raise("FileNotFoundError", "File not found", c1)
     ELSE IF Faulty(fault, "is_file", safe_path) THEN Raise("PermissionError", "Permission denied", c2)
     ELSE IF ~IsFile(safe_path) THEN Raise("ValueError", "Path is not a file", c2)
     ELSE IF Faulty(fault, "stat", safe_path) THEN Raise("PermissionError", "Permission denied", c3)
     ELSE IF TooLarge(Node[safe_path].st_size) THEN Raise("ValueError", "File too large", c3)
     ELSE IF Faulty(fault, "open", safe_path)
       THEN Raise("PermissionError", "Permission denied", Append(c4, C("open", safe_path)))
     ELSE ReadResult(safe_path, guess_type(safe_path),
                     ReadContent(Node[safe_path].data, ReadIsText(safe_path), decoding), c4)

read_file(path, decoding, fault) == Handled(read_file_try(path, decoding, fault))

-----------------------------------------------------------------------------
(* search_files                                                            *)

\* the entries matched if the pattern were "*"
AnyName(p) == TRUE

HasDot(p) == Contains(Name(p), <<".">>)

\* the entries of one directory that the pattern "*.*" matches: a dot in the name
DotEntries(d, order) == SelectSeq(Enumerate(d, order), HasDot)

\* safe_path.rglob("*.*"): the matches of the directory and then, entry by entry,
\* those of each of its subdirectories
RECURSIVE RGlobFrom(_, _)
RGlobFrom(dirs, order) ==
  IF dirs = <<>> THEN <<>>
  ELSE DotEntries(Head(dirs), order)
         \o RGlobFrom(SelectSeq(Enumerate(Head(dirs), order), IsDir) \o Tail(dirs), order)

RGlob(d, order) == RGlobFrom(<<d>>, order)

GlobDescends(d, order) == RGlob(d, order)

\* safe_path.glob("*.*"): the matches of the directory itself
Glob(d, order) == DotEntries(d, order)

\* max_results as passed by the caller: an int, or a value that is no number
IntArg(n) == [type |-> "int", val |-> n]

NoneArg == [type |-> "NoneType", val |-> 0]

\* the dictionary built for one match
SearchFileInfo(file_path) ==
  [name |-> Name(file_path), path |-> file_path, relative_path |-> RelativeTo(file_path),
   type |-> "file", size |-> Node[file_path].st_size,
   modified_time |-> isoformat(Node[file_path].mtime), mime_type |-> guess_type(file_path),
   extension |-> Lower(Suffix(Name(file_path))), line_count |-> None]

\* [f for f in files_to_search if f.is_file()]: the calls it makes, up to a failing one
RECURSIVE IsFileCalls(_, _)
IsFileCalls(candidates, fault) ==
  IF candidates = <<>> THEN <<>>
  ELSE IF Faulty(fault, "is_file", Head(candidates)) THEN <<C("is_file", Head(candidates))>>
  ELSE <<C("is_file", Head(candidates))>> \o IsFileCalls(Tail(candidates), fault)

\* the loop over files_to_search (lines 370-396): SearchLoop is the match test and
\* the append of one iteration, SearchLimit the limit test that ends it
RECURSIVE SearchLoop(_, _, _, _, _, _), SearchLimit(_, _, _, _, _, _)
SearchLoop(files_to_search, search_term_lower, max_results, fault, matches, log) ==
  IF files_to_search = <<>> THEN Return(matches, log)
  ELSE IF ~Contains(Lower(Name(Head(files_to_search))), search_term_lower)
    THEN SearchLimit(files_to_search, search_term_lower, max_results, fault, matches, log)
  ELSE IF Faulty(fault, "stat", Head(files_to_search))
    THEN Raise("PermissionError", "Permission denied",
               Append(log, C("stat", Head(files_to_search))))
  ELSE SearchLimit(files_to_search, search_term_lower, max_results, fault,
                   Append(matches, SearchFileInfo(Head(files_to_search))),
                   Append(log, C("stat", Head(files_to_search))))

SearchLimit(files_to_search, search_term_lower, max_results, fault, matches, log) ==
  IF max_results.type # "int"
    THEN Raise("TypeError", "'>=' not supported between instances", log)
  ELSE IF Len(matches) >= max_results.val THEN Return(matches, log)
  ELSE SearchLoop(Tail(files_to_search), search_term_lower, max_results, fault, matches, log)

\* matches.sort(key=lambda x: x["modified_time"] or "", reverse=True): descending, stable
RECURSIVE InsertByTimeDesc(_, _)
InsertByTimeDesc(x, sorted) ==
  IF sorted = <<>> THEN <<x>>
  ELSE IF StrLess(Head(sorted).modified_time, x.modified_time) THEN <<x>> \o sorted
  ELSE <<Head(sorted)>> \o InsertByTimeDesc(x, Tail(sorted))

RECURSIVE SortByTimeDesc(_)
SortByTimeDesc(matches) ==
  IF matches = <<>> THEN <<>>
  ELSE InsertByTimeDesc(matches[Len(matches)],
                        SortByTimeDesc(SubSeq(matches, 1, Len(matches) - 1)))

\* lines 358-364: the extension filter
FilterExtensions(files_to_search, file_extensions) ==
  LET keep(f) == ExtensionMatches(file_extensions, f)
  IN IF Truthy(file_extensions) THEN SelectSeq(files_to_search, keep) ELSE files_to_search

\* lines 398-413: the sort and the result of a search whose loop has ended
SearchResult(safe_path, search_term, recursive, max_results, loop) ==
  IF loop.raised THEN loop
  ELSE Return([success |-> TRUE, action |-> "search", search_term |-> search_term,
               path |-> safe_path, files |-> SortByTimeDesc(loop.value),
               total_matches |-> Len(loop.value), max_results |-> max_results,
               recursive |-> recursive, timestamp |-> Timestamp],
              loop.calls)

\* lines 355-396, from the candidates of lines 346-353 and the calls made so far
SearchCandidates(candidates, search_term, file_extensions, max_results, fault, log) ==
  IF \E i \in 1..Len(candidates) : Faulty(fault, "is_file", candidates[i])
    THEN Raise("PermissionError", "Permission denied", log \o IsFileCalls(candidates, fault))
  ELSE SearchLoop(FilterExtensions(SelectSeq(candidates, IsFile), file_extensions),
                  Lower(search_term), max_results, fault, <<>>,
                  log \o IsFileCalls(candidates, fault))

\* lines 342-353 onwards, for a confined path
SearchIn(safe_path, search_term, file_extensions, recursive, max_results, order, fault, log) ==
  IF Faulty(fault, "exists", safe_path)
    THEN Raise("PermissionError", "Permission denied", Append(log, C("exists", safe_path)))
  ELSE IF ~Exists(safe_path)
    THEN Raise("FileNotFoundError", "Path not found", Append(log, C("exists", safe_path)))
  ELSE IF Faulty(fault, "is_file", safe_path)
    THEN Raise("PermissionError", "Permission denied",
               log \o <<C("exists", safe_path), C("is_file", safe_path)>>)
  ELSE IF IsFile(safe_path)
    THEN SearchResult(safe_path, search_term, recursive, max_results,
           SearchCandidates(<<safe_path>>, search_term, file_extensions, max_results, fault,
                            log \o <<C("exists", safe_path), C("is_file", safe_path)>>))
  ELSE IF recursive
    THEN IF Faulty(fault, "rglob", safe_path)
           THEN Raise("PermissionError", "Permission denied",
                      log \o <<C("exists", safe_path), C("is_file", safe_path),
                               C("rglob", safe_path)>>)
         ELSE SearchResult(safe_path, search_term, recursive, max_results,
                SearchCandidates(RGlob(safe_path, order), search_term, file_extensions,
                                 max_results, fault,
                                 log \o <<C("exists", safe_path), C("is_file", safe_path),
                                          C("rglob", safe_path)>>))
  ELSE IF Faulty(fault, "glob", safe_path)
    THEN Raise("PermissionError", "Permission denied",
               log \o <<C("exists", safe_path), C("is_file", safe_path), C("glob", safe_path)>>)
  ELSE SearchResult(safe_path, search_term, recursive, max_results,
         SearchCandidates(Glob(safe_path, order), search_term, file_extensions, max_results,
                          fault,
                          log \o <<C("exists", safe_path), C("is_file", safe_path),
                                   C("glob", safe_path)>>))

\* lines 336-340: the search term is validated before the path is confined
SearchConfine(sp, search_term, file_extensions, recursive, max_results, order, fault) ==
  IF ~sp.ok THEN Raise("AccessDenied", "Access denied", <<C("get_safe_path", sp.path)>>)
  ELSE SearchIn(sp.path, search_term, file_extensions, recursive, max_results, order, fault,
                <<C("get_safe_path", sp.path)>>)

search_files_try(path, search_term, file_extensions, recursive, max_results, order, fault) ==
  IF search_term = <<>> THEN Raise("ValueError", "Search term is required", <<>>)
  ELSE SearchConfine(get_safe_path(path), search_term, file_extensions, recursive, max_results,
                     order, fault)

search_files(path, search_term, file_extensions, recursive, max_results, order, fault) ==
  Handled(search_files_try(path, search_term, file_extensions, recursive, max_results, order,
                           fault))

-----------------------------------------------------------------------------
(* get_file_info                                                           *)

\* the line count if get_file_info consulted read_file's extension allow-list too
InfoLineCountByExtension(safe_path, decoding, fault) ==
  IF IsFile(safe_path) /\ ReadIsText(safe_path)
    THEN IF Faulty(fault, "open", safe_path) \/ decoding # "ok" THEN None
         ELSE Some(LineCount(Utf8Ignore(Node[safe_path].data)))
  ELSE None

\* lines 453-472: the line count of a regular file the MIME rule takes for text;
\* a failure of the open or of the read leaves it None
InfoLineCount(safe_path, decoding, fault) ==
  IF IsFile(safe_path) /\ MimeIsText(guess_type(safe_path))
    THEN IF Faulty(fault, "open", safe_path) \/ decoding # "ok" THEN None
         ELSE Some(LineCount(Utf8Ignore(Node[safe_path].data)))
  ELSE None

get_file_info_try(path, decoding, fault) ==
  LET sp == get_safe_path(path)
      safe_path == sp.path
      c0 == <<C("get_safe_path", safe_path)>>
      c1 == Append(c0, C("exists", safe_path))
      c2 == Append(c1, C("stat", safe_path))
      c3 == Append(c2, C("is_file", safe_path))
      c4 == IF IsFile(safe_path) /\ MimeIsText(guess_type(safe_path))
              THEN Append(c3, C("open", safe_path)) ELSE c3
      c5 == c4 \o <<C("is_dir", safe_path), C("is_file", safe_path), C("is_file", safe_path)>>
  IN IF ~sp.ok THEN Raise("AccessDenied", "Access denied", c0)
     ELSE IF Faulty(fault, "exists", safe_path) THEN Raise("PermissionError", "Permission denied", c1)
     ELSE IF ~Exists(safe_path) THEN Raise("FileNotFoundError", "Path not found", c1)
     ELSE IF Faulty(fault, "stat", safe_path) THEN Raise("PermissionError", "Permission denied", c2)
     ELSE IF Faulty(fault, "is_file", safe_path) THEN Raise("PermissionError", "Permission denied", c3)
     ELSE IF Faulty(fault, "is_dir", safe_path)
       THEN Raise("PermissionError", "Permission denied", Append(c4, C("is_dir", safe_path)))
     ELSE Return([success |-> TRUE, action |-> "info", path |-> safe_path,
                  relative_path |-> RelativeTo(safe_path), name |-> Name(safe_path),
                  type |-> IF IsDir(safe_path) THEN "directory" ELSE "file",
                  size |-> IF IsFile(safe_path) THEN Some(Node[safe_path].st_size) ELSE None,
                  modified_time |-> isoformat(Node[safe_path].mtime),
                  mime_type |-> guess_type(safe_path),
                  extension |-> IF IsFile(safe_path) THEN Some(Lower(Suffix(Name(safe_path))))
                                ELSE None,
                  line_count |-> InfoLineCount(safe_path, decoding, fault),
                  timestamp |-> Timestamp],
                 c5)

get_file_info(path, decoding, fault) == Handled(get_file_info_try(path, decoding, fault))

-----------------------------------------------------------------------------
(* The callers' inputs and the environment's choices.                      *)

Rel(segs) == [abs |-> FALSE, segs |-> segs]

Abs(segs) == [abs |-> TRUE, segs |-> segs]

\* paths that stay inside the project root
InsidePaths ==
  { Rel(<<>>), Rel(<<n_sub>>), Rel(<<n_sub, n_in>>), Rel(<<n_v_d>>), Rel(<<n_sub, DotDot>>),
    Abs(<<n_proj, n_sub>>), Rel(<<DotDot, n_proj, n_A_TXT>>), Rel(<<n_A_TXT>>), Rel(<<n_b_txt>>),
    Rel(<<n_sub, n_ab_bin>>), Rel(<<n_sub, n_ab>>), Rel(<<n_sub, n_big_bin>>),
    Rel(<<n_sub, n_in, n_ab_h>>), Rel(<<n_sub, n_in, n_max_bin>>),
    Rel(<<n_sub, n_in, n_big_txt>>), Rel(<<n_v_d, n_c_json>>), Rel(<<n_v_d, n_u_uproject>>),
    Rel(<<n_ghost_txt>>) }

\* paths that normalize outside it: existing and missing, relative and absolute
OutsidePaths ==
  { Rel(<<DotDot, DotDot, n_etc, n_pw>>), Rel(<<DotDot, n_etc>>), Abs(<<n_etc, n_pw>>),
    Rel(<<n_sub, DotDot, DotDot, n_ghost_txt>>), Rel(<<DotDot>>) }

Paths == InsidePaths \cup OutsidePaths

SearchPaths ==
  { Rel(<<>>), Rel(<<n_sub>>), Rel(<<n_A_TXT>>), Rel(<<n_sub, n_ab>>), Rel(<<n_ghost_txt>>),
    Rel(<<DotDot, DotDot, n_etc, n_pw>>) }

SearchTerms == {<<>>, <<"B">>}

ExtFilters ==
  { [isNone |-> TRUE, list |-> <<>>], [isNone |-> FALSE, list |-> <<>>],
    [isNone |-> FALSE, list |-> <<<<".", "T">>>>],
    [isNone |-> FALSE, list |-> <<<<".", "b", "i", "n">>, <<".", "h">>>>],
    [isNone |-> FALSE, list |-> <<<<>>>>] }

SearchExtFilters == ExtFilters

\* the largest max_results tried, besides the default
MaxResultsArg == 2

DefaultMaxResults == 50

MaxResultsArgs ==
  {IntArg(n) : n \in (-1)..MaxResultsArg} \cup {IntArg(DefaultMaxResults), NoneArg}

FaultPaths == {<<n_proj, n_sub>>, <<n_proj, n_sub, n_ab_bin>>, <<n_proj, n_b_txt>>}

Faults == {C(k, p) : k \in ProbeKinds, p \in FaultPaths}

NoEnv == [order |-> IdentityOrder, decoding |-> "ok", fault |-> NoFault]

\* any enumeration order without a fault, or a fault under the ascending order
EnumEnvs ==
  {[order |-> o, decoding |-> "ok", fault |-> NoFault] : o \in EnumOrders}
    \cup {[order |-> IdentityOrder, decoding |-> "ok", fault |-> f] : f \in Faults}

\* a search that is refused for its empty term is tried in one environment only
SearchEnvs(search_term) == IF search_term = <<>> THEN {NoEnv} ELSE EnumEnvs

\* any behaviour of the text-mode reads, with or without a fault
ReadEnvs ==
  {[order |-> IdentityOrder, decoding |-> d, fault |-> f] :
     d \in Decodings, f \in Faults \cup {NoFault}}

NoArgs ==
  [path |-> Rel(<<>>), search_term |-> <<>>, file_extensions |-> [isNone |-> TRUE, list |-> <<>>],
   recursive |-> FALSE, max_results |-> IntArg(DefaultMaxResults)]

NoResult == [none |-> TRUE]

-----------------------------------------------------------------------------
(* The state machine: a caller invokes one tool and receives its result.   *)

\* the handler's result reaches the caller
Deliver(r) == result' = r.result /\ calls' = r.calls

Init ==
  /\ pc = "idle"
  /\ op = "none"
  /\ args = NoArgs
  /\ env = NoEnv
  /\ calls = <<>>
  /\ result = NoResult

ListDirectory ==
  /\ pc = "idle"
  /\ \E path \in Paths, file_extensions \in ExtFilters, e \in EnumEnvs :
       /\ args' = [NoArgs EXCEPT !.path = path, !.file_extensions = file_extensions]
       /\ env' = e
       /\ Deliver(list_directory(path, file_extensions, e.order, e.fault))
  /\ op' = "list_directory"
  /\ pc' = "returned"

ReadFile ==
  /\ pc = "idle"
  /\ \E path \in Paths, e \in ReadEnvs :
       /\ args' = [NoArgs EXCEPT !.path = path]
       /\ env' = e
       /\ Deliver(read_file(path, e.decoding, e.fault))
  /\ op' = "read_file"
  /\ pc' = "returned"

SearchFiles ==
  /\ pc = "idle"
  /\ \E path \in SearchPaths, search_term \in SearchTerms, file_extensions \in SearchExtFilters,
        recursive \in BOOLEAN, max_results \in MaxResultsArgs :
     \E e \in SearchEnvs(search_term) :
       /\ args' = [path |-> path, search_term |-> search_term,
                   file_extensions |-> file_extensions, recursive |-> recursive,
                   max_results |-> max_results]
       /\ env' = e
       /\ Deliver(search_files(path, search_term, file_extensions, recursive, max_results,
                               e.order, e.fault))
  /\ op' = "search_files"
  /\ pc' = "returned"

GetFileInfo ==
  /\ pc = "idle"
  /\ \E path \in Paths, e \in ReadEnvs :
       /\ args' = [NoArgs EXCEPT !.path = path]
       /\ env' = e
       /\ Deliver(get_file_info(path, e.decoding, e.fault))
  /\ op' = "get_file_info"
  /\ pc' = "returned"

\* the caller takes the result; the tools keep no state between calls
TakeResult ==
  /\ pc = "returned"
  /\ pc' = "idle"
  /\ op' = "none"
  /\ args' = NoArgs
  /\ env' = NoEnv
  /\ calls' = <<>>
  /\ result' = NoResult

Next == ListDirectory \/ ReadFile \/ SearchFiles \/ GetFileInfo \/ TakeResult

Spec == Init /\ [][Next]_vars

-----------------------------------------------------------------------------
(* Properties.                                                             *)

Returned == pc = "returned"

\* the confinement of the path argument of the call that returned
Confined == get_safe_path(args.path)

Target == Confined.path

IsFailure == "success" \in DOMAIN result /\ ~result.success

IsSuccess == "success" \in DOMAIN result /\ result.success

Probes == {i \in 1..Len(calls) : calls[i].call \in ProbeKinds}

Made(kind, p) == \E i \in 1..Len(calls) : calls[i] = C(kind, p)

\* the filesystem call of that kind on that path was made and did not fail
Succeeded(kind, p) == Made(kind, p) /\ ~Faulty(env.fault, kind, p)

ActionName ==
  [o \in {"list_directory", "read_file", "search_files", "get_file_info"} |->
     CASE o = "list_directory" -> "list"
       [] o = "read_file" -> "read"
       [] o = "search_files" -> "search"
       [] o = "get_file_info" -> "info"]

\* C1: in each of the four operations no filesystem probe is made before the path
\* is confined with success, and a path that normalizes outside the project root
\* ends in an AccessDenied failure envelope without any probe.
C1_ConfinementFirst ==
  Returned =>
    /\ Probes # {} => calls[1].call = "get_safe_path" /\ Confined.ok
    /\ ~Confined.ok => IsFailure /\ result.error_type = "AccessDenied" /\ Probes = {}

\* The part of C1 about the order of the calls alone: a probe is made only after
\* get_safe_path has returned a confined path.
NoProbeBeforeConfinement ==
  Returned /\ Probes # {} => calls[1].call = "get_safe_path" /\ Confined.ok

\* C2: whatever the other arguments, an operation given a path that normalizes
\* outside the project root reports the AccessDenied failure.
C2_AccessDeniedFirst ==
  Returned /\ ~Confined.ok => IsFailure /\ result.error_type = "AccessDenied"

\* C3: every invocation returns an envelope: a failure with exactly success, error,
\* error_type and timestamp, or a success with the operation's action name and a
\* timestamp; no exception reaches the caller.
C3_AlwaysEnvelope ==
  Returned =>
    /\ "success" \in DOMAIN result
    /\ result.success \in BOOLEAN
    /\ ~result.success => DOMAIN result = {"success", "error", "error_type", "timestamp"}
    /\ result.success =>
         /\ {"action", "timestamp"} \subseteq DOMAIN result
         /\ result.action = ActionName[op]

\* a failure raised in the middle of a search (the stat of a matching entry) has
\* come back as a failure envelope
C3_Witness ==
  /\ Returned /\ op = "search_files" /\ IsFailure
  /\ env.fault.call = "stat"
  /\ calls[Len(calls)] = env.fault
  /\ result.error_type = "PermissionError"

\* the category of the taxonomy a failure belongs to, from the place that raised it
Category(error) ==
  CASE error \in {"File not found", "Path not found"} -> "NotFound"
    [] error = "Path is not a directory" -> "NotADirectory"
    [] error = "Path is not a file" -> "NotAFile"
    [] error = "File too large" -> "TooLarge"
    [] error = "Search term is required" -> "InvalidArgument"
    [] OTHER -> "Other"

Taxonomy == {"NotFound", "NotADirectory", "NotAFile", "TooLarge", "InvalidArgument"}

\* the error_type the handlers report for each category, on one call of each kind
ReportedErrorType ==
  [c \in Taxonomy |->
     CASE c = "NotFound" -> read_file(Rel(<<n_ghost_txt>>), "ok", NoFault).result.error_type
       [] c = "NotADirectory" ->
            list_directory(Rel(<<n_A_TXT>>), NoArgs.file_extensions, IdentityOrder,
                           NoFault).result.error_type
       [] c = "NotAFile" -> read_file(Rel(<<n_sub>>), "ok", NoFault).result.error_type
       [] c = "TooLarge" ->
            read_file(Rel(<<n_sub, n_big_bin>>), "ok", NoFault).result.error_type
       [] c = "InvalidArgument" ->
            search_files(Rel(<<>>), <<>>, NoArgs.file_extensions, FALSE,
                         IntArg(DefaultMaxResults), IdentityOrder, NoFault).result.error_type]

\* C4: error_type alone identifies the category of a failure: the error_type of a
\* failure is not the one reported for any other category of the taxonomy, and a
\* missing path is reported as FileNotFoundError.
C4_ErrorTypeIdentifiesCategory ==
  Returned /\ IsFailure =>
    /\ \A c \in Taxonomy \ {Category(result.error)} : result.error_type # ReportedErrorType[c]
    /\ Category(result.error) = "NotFound" => result.error_type = "FileNotFoundError"

\* The part of C4 that the handlers do satisfy: a missing path is reported as
\* FileNotFoundError and a listed non-directory as NotADirectoryError.
NotFoundReported ==
  Returned /\ IsFailure =>
    /\ Category(result.error) = "NotFound" => result.error_type = "FileNotFoundError"
    /\ Category(result.error) = "NotADirectory" => result.error_type = "NotADirectoryError"

\* C5: read_file on a regular file whose stat size exceeds 10 MiB ends in the
\* too-large failure whatever its content, extension or classification, before any
\* open; a file of exactly 10 MiB or less is never rejected for its size; and a
\* successful read reports the stat size and the whole content.
C5_TooLargeRejected ==
  Returned /\ op = "read_file" /\ Confined.ok /\ IsFile(Target) =>
    /\ Succeeded("stat", Target) /\ Node[Target].st_size > 10 * 1024 * 1024 =>
         /\ IsFailure
         /\ result.error = "File too large"
         /\ ~Made("open", Target)
    /\ Node[Target].st_size <= 10 * 1024 * 1024 /\ IsFailure => result.error # "File too large"
    /\ IsSuccess =>
         /\ result.size = Node[Target].st_size
         /\ result.size <= 10 * 1024 * 1024
         /\ result.encoding = "base64" => b64decode(result.content) = Node[Target].data
         /\ result.encoding = "text" =>
              result.content \in {Utf8Ignore(Node[Target].data), Latin1(Node[Target].data)}

\* an oversize file with a text extension was refused, and no open was made
C5_Witness ==
  /\ Returned /\ op = "read_file" /\ Target = <<n_proj, n_sub, n_in, n_big_txt>>
  /\ IsFailure /\ result.error = "File too large" /\ ~Made("open", Target)

\* s[i] >= s[j] for the modified_time strings of entries i < j
DescendingByTime(files) ==
  \A i, j \in 1..Len(files) : i < j => StrLeq(files[j].modified_time, files[i].modified_time)

\* C6: for every integer max_results a successful search returns at most
\* max_results entries, total_matches is their number, and they are ordered by
\* modified_time descending.  (Stated for max_results >= 0: no list has fewer
\* than zero entries.)
C6_SearchBounded ==
  Returned /\ op = "search_files" /\ IsSuccess /\ args.max_results.type = "int"
      /\ args.max_results.val >= 0 =>
    /\ Len(result.files) <= args.max_results.val
    /\ result.total_matches = Len(result.files)
    /\ DescendingByTime(result.files)

\* The part of C6 that holds for every max_results: the count and the order, and
\* the limit when max_results is at least 1.
SearchBoundedFromOne ==
  Returned /\ op = "search_files" /\ IsSuccess /\ args.max_results.type = "int" =>
    /\ args.max_results.val >= 1 => Len(result.files) <= args.max_results.val
    /\ args.max_results.val < 1 => Len(result.files) <= 1
    /\ result.total_matches = Len(result.files)
    /\ DescendingByTime(result.files)

\* the children of the listed directory that a listing has to show as files
ListedFiles ==
  {c \in Children(Target) :
     /\ ~IsDir(c)
     /\ ~Faulty(env.fault, "is_dir", c) /\ ~Faulty(env.fault, "stat", c)
     /\ args.file_extensions.isNone \/ args.file_extensions.list = <<>>
          \/ \E i \in 1..Len(args.file_extensions.list) :
               Contains(Lower(Suffix(Name(c))), Lower(args.file_extensions.list[i]))}

ListedDirectories == {c \in Children(Target) : IsDir(c) /\ ~Faulty(env.fault, "is_dir", c)}

\* C7: a successful listing returns files and subdirectories each in ascending
\* order of name, with the two totals equal to the two lengths; the files are
\* exactly the non-directory children that pass the filter, the subdirectories the
\* names of the directory children, and no child appears twice.
C7_ListingSorted ==
  Returned /\ op = "list_directory" /\ IsSuccess =>
    /\ \A i \in 1..(Len(result.files) - 1) :
         StrLess(result.files[i].name, result.files[i + 1].name)
    /\ \A i \in 1..(Len(result.subdirectories) - 1) :
         StrLess(result.subdirectories[i], result.subdirectories[i + 1])
    /\ result.total_files = Len(result.files)
    /\ result.total_directories = Len(result.subdirectories)
    /\ {result.files[i].path : i \in 1..Len(result.files)} = ListedFiles
    /\ \A i \in 1..Len(result.files) :
         result.files[i].name = Name(result.files[i].path) /\ result.files[i].type = "file"
    /\ {result.subdirectories[i] : i \in 1..Len(result.subdirectories)}
         = {Name(c) : c \in ListedDirectories}

\* a directory with two files and two subdirectories was listed although the
\* filesystem yielded its entries in another order than by name
C7_Witness ==
  /\ Returned /\ op = "list_directory" /\ IsSuccess
  /\ env.order # IdentityOrder
  /\ Enumerate(Target, env.order) # AscChildren[Target]
  /\ Len(result.files) = 2 /\ Len(result.subdirectories) = 2

\* the text/binary decision of read_file, rule by rule
MimeMarksText(p) ==
  /\ guess_type(p) # None
  /\ \/ guess_type(p)[1].major = "text"
     \/ guess_type(p)[1] \in
          {[major |-> "application", minor |-> m] :
             m \in {"json", "xml", "javascript", "x-python", "x-c++src"}}

ExtensionMarksText(p) == Lower(Suffix(Name(p))) \in text_extensions

\* C8: a successful read of a file that neither the MIME rule nor the extension
\* allow-list marks as text has encoding base64, is_text false, line_count 0, and
\* its content base64-decodes to the bytes of the file.
C8_BinaryRoundTrip ==
  Returned /\ op = "read_file" /\ IsSuccess
      /\ ~MimeMarksText(Target) /\ ~ExtensionMarksText(Target) =>
    /\ result.encoding = "base64"
    /\ result.is_text = FALSE
    /\ result.line_count = 0
    /\ b64decode(result.content) = Node[Target].data

\* a binary file holding bytes above 127 was read
C8_Witness ==
  /\ Returned /\ op = "read_file" /\ IsSuccess
  /\ Target = <<n_proj, n_sub, n_ab_bin>>
  /\ result.encoding = "base64"
  /\ \E i \in 1..Len(Node[Target].data) : Node[Target].data[i] >= 128

\* C9: a read of a file with an allow-listed extension that nothing but decoding
\* disturbs succeeds; it is text unless both decoding attempts raised (Latin-1 being
\* tried when UTF-8 raised), and base64 with is_text false and line_count 0 only
\* then; in every successful read encoding is "text" exactly when is_text is true.
C9_TextFallback ==
  Returned /\ op = "read_file" =>
    /\ IsSuccess => (result.encoding = "text" <=> result.is_text)
    /\ IsSuccess => result.encoding \in {"text", "base64"}
    /\ Confined.ok /\ IsFile(Target) /\ ExtensionMarksText(Target)
         /\ Node[Target].st_size <= 10 * 1024 * 1024 /\ env.fault = NoFault => IsSuccess
    /\ IsSuccess /\ ExtensionMarksText(Target) =>
         /\ env.decoding # "both" => result.encoding = "text" /\ result.is_text
         /\ env.decoding = "utf8" => result.content = Latin1(Node[Target].data)
         /\ env.decoding = "both" =>
              result.encoding = "base64" /\ ~result.is_text /\ result.line_count = 0

\* the bytes of the file are those the UTF-8 decoder drops some of
InvalidUtf8(data) == Len(Utf8Ignore(data)) < Len(data) /\ \A i \in 1..Len(data) : data[i] \notin 194..223

\* a file with extension .uproject and invalid UTF-8 content was read as text
\* through the Latin-1 attempt
C9_Witness ==
  /\ Returned /\ op = "read_file" /\ IsSuccess
  /\ Target = <<n_proj, n_v_d, n_u_uproject>>
  /\ InvalidUtf8(Node[Target].data)
  /\ env.decoding = "utf8"
  /\ result.encoding = "text"

\* C10: a successful search of a directory returns regular files only; without
\* recursive every one is a direct child of the searched directory, with recursive
\* every one lies below it.
C10_SearchDepth ==
  Returned /\ op = "search_files" /\ IsSuccess /\ IsDir(Target) =>
    \A i \in 1..Len(result.files) :
      /\ IsFile(result.files[i].path)
      /\ result.files[i].type = "file"
      /\ ~args.recursive => Parent(result.files[i].path) = Target
      /\ args.recursive => result.files[i].path \in Descendants(Target)

\* a non-recursive search of the root returned a match although a subdirectory
\* holds files whose names match too
C10_Witness ==
  /\ Returned /\ op = "search_files" /\ IsSuccess /\ ~args.recursive
  /\ Target = ProjectRoot
  /\ Len(result.files) >= 1
  /\ \E p \in Descendants(Target) :
       /\ IsFile(p) /\ Parent(p) # Target /\ HasDot(p)
       /\ Contains(Lower(Name(p)), Lower(args.search_term))

\* a recursive search returned a file that lies two directories below the root
RecursiveReachesDepth ==
  /\ Returned /\ op = "search_files" /\ IsSuccess /\ args.recursive
  /\ \E i \in 1..Len(result.files) : Len(result.files[i].path) >= Len(Target) + 3

-----------------------------------------------------------------------------
(* get_file_info: the line count.                                          *)

\* counting the lines of the file failed: the open was refused or the read raised
CountingFails ==
  \/ Faulty(env.fault, "open", Target)
  \/ env.fault = NoFault /\ env.decoding # "ok"

\* C11: get_file_info reports a line count only for a regular file that the MIME
\* rule alone takes for text and whose lines could be counted; a directory has
\* type "directory" and neither size nor line count; a file that only the
\* extension allow-list of read_file marks as text has no line count; and a
\* failure while counting leaves the call successful with no line count.
C11_InfoLineCount ==
  Returned /\ op = "get_file_info" =>
    /\ IsSuccess /\ result.line_count # None =>
          /\ IsFile(Target) /\ MimeMarksText(Target) /\ ~CountingFails
          /\ result.line_count = Some(LineCount(Utf8Ignore(Node[Target].data)))
    /\ IsSuccess /\ IsDir(Target) =>
          result.type = "directory" /\ result.size = None /\ result.line_count = None
    /\ IsSuccess /\ IsFile(Target) /\ ExtensionMarksText(Target) /\ ~MimeMarksText(Target) =>
          result.line_count = None /\ ReadIsText(Target)
    /\ Confined.ok /\ IsFile(Target) /\ MimeMarksText(Target) /\ CountingFails =>
          IsSuccess /\ result.line_count = None

\* the information of a .uproject file, which read_file reads as text, came back
\* without a line count
C11_Witness ==
  /\ Returned /\ op = "get_file_info" /\ IsSuccess
  /\ IsFile(Target) /\ ExtensionMarksText(Target) /\ ~MimeMarksText(Target)
  /\ env.decoding = "ok" /\ env.fault = NoFault
  /\ result.line_count = None

\* the lines of a text/plain file were counted
InfoCountsLines ==
  /\ Returned /\ op = "get_file_info" /\ IsSuccess
  /\ result.line_count # None

\* the open of a text/plain file was refused and the call succeeded all the same
InfoCountFailureSwallowed ==
  /\ Returned /\ op = "get_file_info" /\ IsSuccess
  /\ MimeMarksText(Target) /\ Faulty(env.fault, "open", Target)

\* the information of a directory whose name ends in a text suffix
InfoOfDottedDirectory ==
  /\ Returned /\ op = "get_file_info" /\ IsSuccess
  /\ IsDir(Target) /\ MimeMarksText(Target)

-----------------------------------------------------------------------------
(* The extension filter of list_directory and search_files.                *)

\* the filter of the call keeps the file: no filter list or an empty one, or one
\* of its strings, lowercased, occurs in the lowercased suffix of the file
FilterKeeps(p) ==
  \/ args.file_extensions.isNone
  \/ args.file_extensions.list = <<>>
  \/ \E i \in 1..Len(args.file_extensions.list) :
       \E k \in 0..Len(Suffix(Name(p))) :
         /\ k + Len(args.file_extensions.list[i]) <= Len(Suffix(Name(p)))
         /\ \A j \in 1..Len(args.file_extensions.list[i]) :
              LowerChar(Suffix(Name(p))[k + j]) = LowerChar(args.file_extensions.list[i][j])

\* the regular files a search of the target looks at
SearchScope ==
  IF IsFile(Target) THEN {Target}
  ELSE {p \in IF args.recursive THEN Descendants(Target) ELSE Children(Target) :
          IsFile(p) /\ Contains(Name(p), <<".">>)}

\* a search that stopped at its limit may have left matches out
SearchCutShort ==
  args.max_results.type = "int" /\ Len(result.files) >= args.max_results.val

\* C12: list_directory and search_files keep a file exactly when the filter list
\* is absent or empty or one of its strings, lowercased, is a substring of the
\* file's lowercased suffix; list_directory shows every subdirectory whatever
\* the filter is.
C12_ExtensionFilter ==
  /\ Returned /\ op = "list_directory" /\ IsSuccess =>
       /\ {result.files[i].path : i \in 1..Len(result.files)} =
            {c \in Children(Target) :
               /\ ~IsDir(c) /\ FilterKeeps(c)
               /\ ~Faulty(env.fault, "is_dir", c) /\ ~Faulty(env.fault, "stat", c)}
       /\ {result.subdirectories[i] : i \in 1..Len(result.subdirectories)} =
            {Name(c) : c \in {d \in Children(Target) :
                                IsDir(d) /\ ~Faulty(env.fault, "is_dir", d)}}
  /\ Returned /\ op = "search_files" /\ IsSuccess =>
       /\ \A i \in 1..Len(result.files) : FilterKeeps(result.files[i].path)
       /\ ~SearchCutShort =>
            {result.files[i].path : i \in 1..Len(result.files)} =
              {p \in SearchScope :
                 FilterKeeps(p) /\ Contains(Lower(Name(p)), Lower(args.search_term))}

\* a listing under the filter ".T" kept a .txt and a .TXT file and the
\* subdirectories, and dropped nothing else than files
C12_Witness ==
  /\ Returned /\ op = "list_directory" /\ IsSuccess
  /\ args.file_extensions.list = <<<<".", "T">>>>
  /\ \E i \in 1..Len(result.files) : Suffix(result.files[i].name) = <<".", "t", "x", "t">>
  /\ \E i \in 1..Len(result.files) : Suffix(result.files[i].name) = <<".", "T", "X", "T">>
  /\ Len(result.subdirectories) >= 1

\* a search under the filter ".T" returned a .txt file
SearchFilterKeepsSubstring ==
  /\ Returned /\ op = "search_files" /\ IsSuccess
  /\ args.file_extensions.list = <<<<".", "T">>>>
  /\ \E i \in 1..Len(result.files) : Suffix(result.files[i].name) = <<".", "t", "x", "t">>

\* a file without suffix was kept by the empty filter string
EmptyStringKeepsDotless ==
  /\ Returned /\ IsSuccess /\ op \in {"list_directory", "search_files"}
  /\ args.file_extensions.list = <<<<>>>>
  /\ \E i \in 1..Len(result.files) : Suffix(result.files[i].name) = <<>>

\* a file without suffix was dropped by a filter of non-empty strings
FilterDropsDotless ==
  /\ Returned /\ IsSuccess /\ op = "search_files"
  /\ Truthy(args.file_extensions) /\ args.file_extensions.list # <<<<>>>>
  /\ IsFile(Target) /\ Suffix(Name(Target)) = <<>>
  /\ Contains(Lower(Name(Target)), Lower(args.search_term))
  /\ result.files = <<>>

\* a search with an empty filter list returned a file
EmptyListKeepsAll ==
  /\ Returned /\ IsSuccess /\ op = "search_files"
  /\ ~args.file_extensions.isNone /\ args.file_extensions.list = <<>>
  /\ Len(result.files) >= 1

-----------------------------------------------------------------------------
(* The candidates of a search.                                              *)

Dotless(p) == \A i \in 1..Len(Name(p)) : Name(p)[i] # "."

NameMatches(p) == Contains(Lower(Name(p)), Lower(args.search_term))

\* C13: a search of a directory returns only regular files whose names contain a
\* dot, so a regular file with a dotless name is never returned, whatever the
\* search term; a search whose path is a file looks at that file alone and
\* returns it, dotless or not, when its name contains the term and the
\* extension filter keeps it.
C13_DotlessCandidates ==
  Returned /\ op = "search_files" /\ IsSuccess =>
    /\ IsDir(Target) =>
         /\ \A i \in 1..Len(result.files) :
              /\ IsFile(result.files[i].path) /\ ~Dotless(result.files[i].path)
              /\ result.files[i].path \in
                   IF args.recursive THEN Descendants(Target) ELSE Children(Target)
         /\ ~SearchCutShort =>
              \A p \in IF args.recursive THEN Descendants(Target) ELSE Children(Target) :
                IsFile(p) /\ ~Dotless(p) /\ NameMatches(p) /\ FilterKeeps(p) =>
                  \E i \in 1..Len(result.files) : result.files[i].path = p
    /\ IsFile(Target) =>
         /\ \A i \in 1..Len(result.files) : result.files[i].path = Target
         /\ Len(result.files) = IF NameMatches(Target) /\ FilterKeeps(Target) THEN 1 ELSE 0

\* a search of a directory left out a dotless regular file of that directory
\* whose name contains the search term, and returned another file
C13_Witness ==
  /\ Returned /\ op = "search_files" /\ IsSuccess /\ IsDir(Target)
  /\ ~SearchCutShort /\ Len(result.files) >= 1
  /\ \E p \in Children(Target) :
       /\ IsFile(p) /\ Dotless(p) /\ NameMatches(p) /\ FilterKeeps(p)
       /\ \A i \in 1..Len(result.files) : result.files[i].path # p

\* the search of the dotless file itself returned it
DotlessFileFound ==
  /\ Returned /\ op = "search_files" /\ IsSuccess
  /\ IsFile(Target) /\ Dotless(Target)
  /\ Len(result.files) = 1 /\ result.files[1].path = Target

-----------------------------------------------------------------------------
(* The UE4 tools (ue4_ops.py).  A tool validates its arguments, looks the  *)
(* connection up in the websocket manager, and hands one command to the    *)
(* connection.  Session ids and names are strings of which only equality   *)
(* and emptiness matter; a dict argument is None, "{}" or some other dict. *)

\* a connection object: whether it is truthy, and the attributes
\* _send_ue4_command looks for (ws is "none", "nosend" or "send")
Conn(id, truthy, send_json, send, ws) ==
  [id |-> id, truthy |-> truthy, send_json |-> send_json, send |-> send, ws |-> ws]

Connections ==
  { Conn("json", TRUE, TRUE, TRUE, "none"), Conn("send", TRUE, FALSE, TRUE, "send"),
    Conn("ws", TRUE, FALSE, FALSE, "send"), Conn("bare", TRUE, FALSE, FALSE, "nosend"),
    Conn("plain", TRUE, FALSE, FALSE, "none"), Conn("falsy", FALSE, TRUE, TRUE, "none") }

\* the keys under which connections are registered
SessionKeys == {"", "s1", "s2"}

\* the largest number of registered connections
MaxConnections == 2

\* manager.active_connections: a dict, in insertion order
Registries ==
  {r \in UNION {[1..n -> [key : SessionKeys, conn : Connections]] : n \in 0..MaxConnections} :
     \A i, j \in 1..Len(r) : i # j => r[i].key # r[j].key}

\* get_ue4_websocket_manager(): None, an object without active_connections,
\* or a manager with its registry
Managers ==
  {[kind |-> "none", active_connections |-> <<>>],
   [kind |-> "noattr", active_connections |-> <<>>]}
    \cup {[kind |-> "manager", active_connections |-> r] : r \in Registries}

NoCommand == [action |-> "", request_id |-> [prefix |-> "", ms |-> 0], payload |-> ""]

\* one step of a UE4 tool, as recorded in the call log
U(kind, conn, form, command) ==
  [call |-> kind, conn |-> conn, form |-> form, command |-> command]

SendKinds == {"send_json", "send", "ws.send"}

\* `d or {}` for a dict argument
OrEmpty(d) == IF d = "None" \/ d = "{}" THEN "{}" ELSE d

\* `session_id or "default"`
OrDefault(session_id) == IF session_id = "" THEN "default" ELSE session_id

\* the lookup if an unknown session id fell back to the first connection
get_ue4_connection_fallback(manager, session_id) ==
  LET active_connections == manager.active_connections
      log == <<U("get_ue4_connection", "", "", NoCommand)>>
  IN IF manager.kind = "none"
       THEN Raise("RuntimeError", "UE4 WebSocket manager not initialized", log)
     ELSE IF \E i \in 1..Len(active_connections) : active_connections[i].key = session_id
       THEN Return(Some(active_connections[CHOOSE i \in 1..Len(active_connections) :
                                             active_connections[i].key = session_id].conn), log)
     ELSE IF active_connections # <<>>
       THEN Return(Some(active_connections[1].conn), log)
     ELSE Return(None, log)

\* lines 19-44
get_ue4_connection(manager, session_id) ==
  LET active_connections == manager.active_connections
      log == <<U("get_ue4_connection", "", "", NoCommand)>>
  IN IF manager.kind = "none"
       THEN Raise("RuntimeError", "UE4 WebSocket manager not initialized", log)
     ELSE IF \E i \in 1..Len(active_connections) : active_connections[i].key = session_id
       THEN Return(Some(active_connections[CHOOSE i \in 1..Len(active_connections) :
                                             active_connections[i].key = session_id].conn), log)
     ELSE IF session_id = "" /\ active_connections # <<>>
       THEN Return(Some(active_connections[1].conn), log)
     ELSE Return(None, log)

\* what the awaited send does is the environment's choice
Sendings == {"ok", "raises"}

\* one awaited send: the command is handed over, and the send returns or raises
AwaitSend(kind, connection, form, command, sending, log) ==
  IF sending = "raises"
    THEN Raise("ConnectionError", "connection closed",
               Append(log, U(kind, connection.id, form, command)))
  ELSE Return(None, Append(log, U(kind, connection.id, form, command)))

\* lines 47-62: send_json takes the command itself, send its JSON text
send_ue4_command(connection, command, sending, log) ==
  IF connection.send_json
    THEN AwaitSend("send_json", connection, "object", command, sending, log)
  ELSE IF connection.send
    THEN AwaitSend("send", connection, "text", command, sending, log)
  ELSE IF connection.ws = "send"
    THEN AwaitSend("ws.send", connection, "text", command, sending, log)
  ELSE Raise("RuntimeError", "UE4 connection object does not support send_json/send", log)

\* the return after the awaited send (lines 107-123)
SentResult(sent, success_result) ==
  IF sent.raised THEN sent ELSE Return(success_result, sent.calls)

\* lines 90-123 from the outcome of the lookup: `if not connection`, the send,
\* and the result
WithConnection(lookup, command, sending, success_result) ==
  IF lookup.raised THEN lookup
  ELSE IF lookup.value = None
    THEN Raise("RuntimeError", "No active UE4 connection found for session_id", lookup.calls)
  ELSE IF ~lookup.value[1].truthy
    THEN Raise("RuntimeError", "No active UE4 connection found for session_id", lookup.calls)
  ELSE SentResult(send_ue4_command(lookup.value[1], command, sending, lookup.calls),
                  success_result)

\* the `except Exception as e` of the three tools (lines 125-134)
ue4_except(action, session_id, outcome) ==
  [result |-> IF ~outcome.raised THEN outcome.value
              ELSE [success |-> FALSE, action |-> action,
                    session_id |-> OrDefault(session_id), error |-> outcome.exc.msg,
                    error_type |-> outcome.exc.cls, timestamp |-> Timestamp],
   calls |-> outcome.calls]

\* request_id = f"{action}_{int(datetime.now().timestamp() * 1000)}"
RequestId(prefix, now) == [prefix |-> prefix, ms |-> now]

move_actor_try(session_id, actor_name, location, rotation, scale, manager, now, sending) ==
  IF actor_name = "" THEN Raise("ValueError", "Actor name is required", <<>>)
  ELSE WithConnection(
         get_ue4_connection(manager, session_id),
         [action |-> "move_actor", request_id |-> RequestId("move_actor", now),
          payload |-> [actor_name |-> actor_name, location |-> OrEmpty(location),
                       rotation |-> OrEmpty(rotation), scale |-> OrEmpty(scale)]],
         sending,
         [success |-> TRUE, action |-> "move_actor", status |-> "command_sent",
          request_id |-> RequestId("move_actor", now), session_id |-> OrDefault(session_id),
          actor_name |-> actor_name, location |-> location, rotation |-> rotation,
          scale |-> scale, message |-> "Move actor command sent to UE4",
          timestamp |-> Timestamp])

move_actor(session_id, actor_name, location, rotation, scale, manager, now, sending) ==
  ue4_except("move_actor", session_id,
             move_actor_try(session_id, actor_name, location, rotation, scale,
                            manager, now, sending))

get_selected_actors_try(session_id, manager, now, sending) ==
  WithConnection(
    get_ue4_connection(manager, session_id),
    [action |-> "get_selected_actors", request_id |-> RequestId("get_selected_actors", now),
     payload |-> "{}"],
    sending,
    [success |-> TRUE, action |-> "get_selected_actors", status |-> "command_sent",
     request_id |-> RequestId("get_selected_actors", now),
     session_id |-> OrDefault(session_id),
     message |-> "Get selected actors command sent to UE4 (await UE4 response)",
     timestamp |-> Timestamp])

get_selected_actors(session_id, manager, now, sending) ==
  ue4_except("get_selected_actors", session_id,
             get_selected_actors_try(session_id, manager, now, sending))

execute_ue4_command_try(session_id, command_name, parameters, manager, now, sending) ==
  IF command_name = "" THEN Raise("ValueError", "Command name is required", <<>>)
  ELSE WithConnection(
         get_ue4_connection(manager, session_id),
         [action |-> command_name, request_id |-> RequestId("execute_ue4_command", now),
          payload |-> OrEmpty(parameters)],
         sending,
         [success |-> TRUE, action |-> "execute_ue4_command", status |-> "command_sent",
          request_id |-> RequestId("execute_ue4_command", now),
          session_id |-> OrDefault(session_id), command_name |-> command_name,
          parameters |-> OrEmpty(parameters), message |-> "Command sent to UE4",
          timestamp |-> Timestamp])

execute_ue4_command(session_id, command_name, parameters, manager, now, sending) ==
  ue4_except("execute_ue4_command", session_id,
             execute_ue4_command_try(session_id, command_name, parameters,
                                     manager, now, sending))

-----------------------------------------------------------------------------
(* The callers of the UE4 tools and their environment.                     *)

\* session ids asked for: none, registered ones, and one never registered
SessionIds == SessionKeys \cup {"s9"}

ActorNames == {"", "Cube"}

CommandNames == {"", "spawn"}

DictArgs == {"None", "{x: 1}"}

\* datetime.now().timestamp() * 1000 at the moment the request id is made
Clock == {1000, 1001}

UE4Envs == [manager : Managers, now : Clock, sending : Sendings]

NoUE4Args ==
  [session_id |-> "", actor_name |-> "", location |-> "None", rotation |-> "None",
   scale |-> "None", command_name |-> "", parameters |-> "None"]

NoUE4Env == [manager |-> [kind |-> "none", active_connections |-> <<>>], now |-> 1000,
             sending |-> "ok"]

UE4Init ==
  /\ pc = "idle"
  /\ op = "none"
  /\ args = NoUE4Args
  /\ env = NoUE4Env
  /\ calls = <<>>
  /\ result = NoResult

MoveActor ==
  /\ pc = "idle"
  /\ \E session_id \in SessionIds, actor_name \in ActorNames, location \in DictArgs,
        e \in UE4Envs :
       /\ args' = [NoUE4Args EXCEPT !.session_id = session_id, !.actor_name = actor_name,
                                    !.location = location]
       /\ env' = e
       /\ Deliver(move_actor(session_id, actor_name, location, "None", "None",
                             e.manager, e.now, e.sending))
  /\ op' = "move_actor"
  /\ pc' = "returned"

GetSelectedActors ==
  /\ pc = "idle"
  /\ \E session_id \in SessionIds, e \in UE4Envs :
       /\ args' = [NoUE4Args EXCEPT !.session_id = session_id]
       /\ env' = e
       /\ Deliver(get_selected_actors(session_id, e.manager, e.now, e.sending))
  /\ op' = "get_selected_actors"
  /\ pc' = "returned"

ExecuteUE4Command ==
  /\ pc = "idle"
  /\ \E session_id \in SessionIds, command_name \in CommandNames, parameters \in DictArgs,
        e \in UE4Envs :
       /\ args' = [NoUE4Args EXCEPT !.session_id = session_id,
                                    !.command_name = command_name,
                                    !.parameters = parameters]
       /\ env' = e
       /\ Deliver(execute_ue4_command(session_id, command_name, parameters,
                                      e.manager, e.now, e.sending))
  /\ op' = "execute_ue4_command"
  /\ pc' = "returned"

\* the caller takes the result; the tools keep no state between calls
UE4TakeResult ==
  /\ pc = "returned"
  /\ pc' = "idle"
  /\ op' = "none"
  /\ args' = NoUE4Args
  /\ env' = NoUE4Env
  /\ calls' = <<>>
  /\ result' = NoResult

UE4Next == MoveActor \/ GetSelectedActors \/ ExecuteUE4Command \/ UE4TakeResult

UE4Spec == UE4Init /\ [][UE4Next]_vars

-----------------------------------------------------------------------------
(* The UE4 tools: validation, lookup, send.                                *)

Sends == {i \in 1..Len(calls) : calls[i].call \in SendKinds}

Lookups == {i \in 1..Len(calls) : calls[i].call = "get_ue4_connection"}

Registered == {env.manager.active_connections[i].key :
                 i \in 1..Len(env.manager.active_connections)}

\* the connections the session id of the call stands for: the one registered
\* under it, else the first one if the session id is empty, else none
Resolved ==
  IF env.manager.kind = "none" THEN {}
  ELSE IF args.session_id \in Registered
    THEN {env.manager.active_connections[i].conn :
            i \in {j \in 1..Len(env.manager.active_connections) :
                     env.manager.active_connections[j].key = args.session_id}}
  ELSE IF args.session_id = "" /\ Len(env.manager.active_connections) >= 1
    THEN {env.manager.active_connections[1].conn}
  ELSE {}

ValidationFails ==
  \/ op = "move_actor" /\ args.actor_name = ""
  \/ op = "execute_ue4_command" /\ args.command_name = ""

\* C14: move_actor, get_selected_actors and execute_ue4_command report
\* "command_sent" only after exactly one command with the generated request id
\* was handed to a send of the connection the session id stands for; a missing
\* actor_name or command_name fails before the lookup, and the lookup comes
\* before the send; a non-empty session id that is not registered resolves to no
\* connection; and when validation, lookup or send fails nothing more is sent
\* and a failure envelope comes back.
C14_CommandSent ==
  Returned =>
    /\ "success" \in DOMAIN result /\ "escaped" \notin DOMAIN result
    /\ IsSuccess =>
         /\ result.status = "command_sent"
         /\ ~ValidationFails /\ env.sending = "ok"
         /\ Cardinality(Sends) = 1
         /\ \A i \in Sends :
              /\ calls[i].command.request_id = result.request_id
              /\ calls[i].command.request_id = [prefix |-> op, ms |-> env.now]
    /\ ValidationFails => IsFailure /\ calls = <<>> /\ result.error_type = "ValueError"
    /\ Cardinality(Sends) <= 1 /\ Cardinality(Lookups) <= 1
    /\ \A i \in Sends : \E j \in Lookups : j < i
    /\ \A i \in Sends : \E c \in Resolved : calls[i].conn = c.id
    /\ Resolved = {} => IsFailure /\ Sends = {}
    /\ args.session_id # "" /\ args.session_id \notin Registered => IsFailure /\ Sends = {}
    /\ IsFailure =>
         /\ "error_type" \in DOMAIN result
         /\ Sends # {} => env.sending = "raises"
    /\ Sends # {} /\ env.sending = "raises" => IsFailure /\ Sends = {Len(calls)}

\* a command went to the connection registered under the session id, which is
\* not the first connection of the manager
C14_Witness ==
  /\ Returned /\ op = "move_actor" /\ IsSuccess
  /\ args.session_id = "s1"
  /\ Len(env.manager.active_connections) = 2
  /\ env.manager.active_connections[2].key = "s1"
  /\ env.manager.active_connections[1].conn # env.manager.active_connections[2].conn
  /\ \E i \in Sends : calls[i].conn = env.manager.active_connections[2].conn.id

\* a session id that is not registered was refused although another session's
\* connection could have taken the command
UnknownSessionRefused ==
  /\ Returned /\ op = "execute_ue4_command" /\ IsFailure
  /\ args.session_id = "s9" /\ args.command_name # ""
  /\ Len(env.manager.active_connections) >= 1
  /\ env.manager.active_connections[1].conn.send_json
  /\ env.manager.active_connections[1].conn.truthy
  /\ Sends = {} /\ Lookups = {1}

\* without a session id the command went to the first connection
FirstConnectionByDefault ==
  /\ Returned /\ op = "get_selected_actors" /\ IsSuccess
  /\ args.session_id = "" /\ "" \notin Registered
  /\ Len(env.manager.active_connections) = 2
  /\ \E i \in Sends : calls[i].conn = env.manager.active_connections[1].conn.id

\* the send raised after the command was handed over
SendFailureReported ==
  /\ Returned /\ IsFailure /\ env.sending = "raises"
  /\ Len(calls) = 2 /\ Sends = {2}
  /\ result.error_type = "ConnectionError"

\* the connection offers no way to send
NoSendCapability ==
  /\ Returned /\ IsFailure /\ ~ValidationFails
  /\ Resolved # {} /\ Sends = {}
  /\ \A c \in Resolved : c.truthy

====
